---- MODULE Spec2Model ----
(***************************************************************************)
(* CLBlast, src/routine.cpp: the Routine constructor.  Every construction  *)
(* of a Routine is one "acquire" request: it looks the program up in the   *)
(* program cache (keyed by context), then the binary in the binary cache   *)
(* (keyed by device name), and otherwise assembles the kernel source,      *)
(* compiles it and stores the results in both caches.                      *)
(***************************************************************************)
EXTENDS Integers, Sequences, FiniteSets, TLC

\* ------------------------------------------------------------------ bounds
NumContexts == 2
NumDevices  == 2
NumRoutines == 1
MaxRequests == 3
NumThreads  == 2
MaxFragments == 2

Contexts == 1 .. NumContexts
Devices  == 1 .. NumDevices
Routines == 1 .. NumRoutines
Threads  == 1 .. NumThreads

\* ------------------------------------------------------------- data model
\* enum class Precision
Precisions == {"Half", "Single", "Double", "ComplexSingle", "ComplexDouble"}

\* static_cast<int>(precision_)
PrecisionOrdinal(p) ==
  CASE p = "Half"          -> 16
    [] p = "Single"        -> 32
    [] p = "Double"        -> 64
    [] p = "ComplexSingle" -> 3232
    [] p = "ComplexDouble" -> 6464

kKhronosHalfPrecision   == "cl_khr_fp16"
kKhronosDoublePrecision == "cl_khr_fp64"

\* device_.Capabilities(): the extension string of a device, a fixed property
\* of the device.  The devices of the model cover the four extension sets.
Capabilities(d) ==
  CASE d % 4 = 1 -> {kKhronosDoublePrecision}
    [] d % 4 = 2 -> {kKhronosHalfPrecision}
    [] d % 4 = 3 -> {}
    [] d % 4 = 0 -> {kKhronosDoublePrecision, kKhronosHalfPrecision}

\* device_.IsAMD(), device_.IsARM(), device_.IsGPU()
IsAMD(d) == d % 3 = 1
IsARM(d) == d % 3 = 2
IsGPU(d) == d % 4 # 0

\* db_.GetDefines(), the common header and the routine's source fragments are
\* opaque texts; a piece of the source string is a record.
Piece(kind, name, value) == [kind |-> kind, name |-> name, value |-> value]
GetDefines(d)    == <<Piece("text", "db_defines", d)>>
CommonHeader     == <<Piece("text", "common.opencl", 0)>>
Fragments(name)  == <<Piece("text", "fragment", 1), Piece("text", "fragment", 2)>>

\* A Program object: the context it was created in, the device it was built
\* for (0: none yet), what it was created from, and whether Build succeeded.
NoProgram == [context |-> 0, device |-> 0, origin |-> "none", built |-> FALSE]
ProgramFromSource(ctx) ==
  [context |-> ctx, device |-> 0, origin |-> "source", built |-> FALSE]
ProgramFromBinary(dev, ctx, binary) ==
  [context |-> ctx, device |-> dev, origin |-> "binary", built |-> FALSE]
\* program.Build(device, options) when the backend accepts the program
Build(program, dev) == [program EXCEPT !.device = dev, !.built = TRUE]
\* program.GetIR(): the binary of a built program, specific to its device
GetIR(program) == [device |-> program.device, valid |-> program.built]

\* ------------------------------------------------------------- the caches
ProgramIsInCache(cache, ctx, precision, name) ==
  \E e \in cache : e.context = ctx /\ e.precision = precision /\ e.routine_name = name

BinaryIsInCache(cache, dev, precision, name) ==
  \E e \in cache : e.device_name = dev /\ e.precision = precision /\ e.routine_name = name

GetBinaryFromCache(cache, dev, precision, name) ==
  (CHOOSE e \in cache :
     e.device_name = dev /\ e.precision = precision /\ e.routine_name = name).binary

GetProgramFromCache(cache, ctx, precision, name) ==
  (CHOOSE e \in cache :
     e.context = ctx /\ e.precision = precision /\ e.routine_name = name).program

\* The first entry stored under a key is the one every lookup finds.
StoreBinaryToCache(cache, binary, dev, precision, name) ==
  IF BinaryIsInCache(cache, dev, precision, name) THEN cache
  ELSE cache \cup {[binary |-> binary, device_name |-> dev,
                    precision |-> precision, routine_name |-> name]}

StoreProgramToCache(cache, program, ctx, precision, name) ==
  IF ProgramIsInCache(cache, ctx, precision, name) THEN cache
  ELSE cache \cup {[program |-> program, context |-> ctx,
                    precision |-> precision, routine_name |-> name]}

\* ---------------------------------------------------- one acquire request
\* The constructor's locals and members while it runs, and what it has done:
\* the backend calls it made and the cache stores it issued (present: the key
\* already held an entry when the store was issued).
NewRequest(ctx, dev, precision, name) ==
  [pc |-> "ProgramCheck", status |-> "running",
   context |-> ctx, device |-> dev, precision |-> precision, routine_name |-> name,
   options_set |-> FALSE, options |-> <<>>,
   program |-> NoProgram, source |-> <<>>,
   program_hit |-> FALSE, binary_hit |-> FALSE, checked |-> FALSE,
   binary_builds |-> 0, source_builds |-> 0, log_printed |-> FALSE,
   stores |-> <<>>]

Machine(r, pcache, bcache) ==
  [r |-> r, program_cache |-> pcache, binary_cache |-> bcache]

Return(r)       == [r EXCEPT !.pc = "done", !.status = "ok"]
Throw(r, error) == [r EXCEPT !.pc = "done", !.status = error]

\* Faulty variant: the constructor goes on although the program is cached.
ProgramCheckNoReturn(m) ==
  [m EXCEPT !.r.pc = "Options",
            !.r.program_hit = ProgramIsInCache(m.program_cache, m.r.context,
                                               m.r.precision, m.r.routine_name)]

\* Faulty variant: the extensions are checked before the cached program is
\* returned.
ProgramCheckRecheck(m) ==
  LET r == m.r
      lacks == \/ r.precision \in {"Double", "ComplexDouble"}
                    /\ kKhronosDoublePrecision \notin Capabilities(r.device)
               \/ r.precision = "Half"
                    /\ kKhronosHalfPrecision \notin Capabilities(r.device)
  IN IF ProgramIsInCache(m.program_cache, r.context, r.precision, r.routine_name)
     THEN IF lacks
          THEN [m EXCEPT !.r = Throw([r EXCEPT !.program_hit = TRUE, !.checked = TRUE],
                                     IF r.precision = "Half" THEN "kNoHalfPrecision"
                                     ELSE "kNoDoublePrecision")]
          ELSE [m EXCEPT !.r = Return([r EXCEPT !.program_hit = TRUE, !.checked = TRUE])]
     ELSE [m EXCEPT !.r.pc = "Options"]

\* Faulty variant: the lookup does not compare the routine name.
ProgramCheckAnyRoutine(m) ==
  LET r == m.r IN
  IF \E name \in 1 .. (NumRoutines + 1) :
       ProgramIsInCache(m.program_cache, r.context, r.precision, name)
  THEN [m EXCEPT !.r = Return([r EXCEPT !.program_hit = TRUE])]
  ELSE [m EXCEPT !.r.pc = "Options"]

\* if (ProgramIsInCache(context_, precision_, routine_name_)) { return; }
ProgramCheck(m) ==
  LET r == m.r IN
  IF ProgramIsInCache(m.program_cache, r.context, r.precision, r.routine_name)
  THEN [m EXCEPT !.r = Return([r EXCEPT !.program_hit = TRUE])]
  ELSE [m EXCEPT !.r.pc = "Options"]

\* options from the environment variable CLBLAST_BUILD_OPTIONS (if set)
Options(m, env) ==
  [m EXCEPT !.r.options_set = TRUE, !.r.options = env, !.r.pc = "BinaryCheck"]

\* if (BinaryIsInCache(device_name_, precision_, routine_name_)) {
BinaryCheck(m) ==
  LET r == m.r IN
  IF BinaryIsInCache(m.binary_cache, r.device, r.precision, r.routine_name)
  THEN [m EXCEPT !.r.binary_hit = TRUE, !.r.pc = "BinaryBuild"]
  ELSE [m EXCEPT !.r.pc = "Capability"]

\* Faulty variant: the program is stored before it is built.
BinaryBuildStoreFirst(m, binary_ok) ==
  LET r       == m.r
      binary  == GetBinaryFromCache(m.binary_cache, r.device, r.precision, r.routine_name)
      program == ProgramFromBinary(r.device, r.context, binary)
      called  == [r EXCEPT !.binary_builds = @ + 1,
                           !.stores = Append(@, [cache |-> "program", present |-> FALSE])]
      stored  == [m EXCEPT !.program_cache =
                     StoreProgramToCache(@, program, r.context, r.precision, r.routine_name)]
  IN IF binary_ok
     THEN [stored EXCEPT !.r = [called EXCEPT !.program = Build(program, r.device),
                                              !.pc = "Capability"]]
     ELSE [stored EXCEPT !.r = Throw([called EXCEPT !.program = program], "CLError")]

\* Faulty variant: a failed build from the binary drops the binary entry.
BinaryBuildEvictOnFailure(m, binary_ok) ==
  LET r       == m.r
      binary  == GetBinaryFromCache(m.binary_cache, r.device, r.precision, r.routine_name)
      program == ProgramFromBinary(r.device, r.context, binary)
      called  == [r EXCEPT !.binary_builds = @ + 1]
  IN IF binary_ok
     THEN [m EXCEPT !.r = [called EXCEPT !.program = Build(program, r.device),
                                         !.pc = "BinaryStore"]]
     ELSE [m EXCEPT !.r = Throw([called EXCEPT !.program = program], "CLError"),
                    !.binary_cache =
                       {e \in @ : ~(/\ e.device_name = r.device
                                    /\ e.precision = r.precision
                                    /\ e.routine_name = r.routine_name)}]

\* binary = GetBinaryFromCache(..); program = Program(device_, context_, binary);
\* program.Build(device_, options);   (a CLError leaves the constructor)
BinaryBuild(m, binary_ok) ==
  LET r       == m.r
      binary  == GetBinaryFromCache(m.binary_cache, r.device, r.precision, r.routine_name)
      program == ProgramFromBinary(r.device, r.context, binary)
      called  == [r EXCEPT !.binary_builds = @ + 1]
  IN IF binary_ok
     THEN [m EXCEPT !.r = [called EXCEPT !.program = Build(program, r.device),
                                         !.pc = "BinaryStore"]]
     ELSE [m EXCEPT !.r = Throw([called EXCEPT !.program = program], "CLError")]

\* The statement after the binary branch: the branch has no return, so control
\* goes on to the capability check and the compilation below it.
AfterBinaryStore == "Capability"

\* StoreProgramToCache(program, context_, precision_, routine_name_); }
BinaryStore(m) ==
  LET r == m.r
      present == ProgramIsInCache(m.program_cache, r.context, r.precision, r.routine_name)
  IN [m EXCEPT
        !.program_cache =
           StoreProgramToCache(@, r.program, r.context, r.precision, r.routine_name),
        !.r.stores = Append(@, [cache |-> "program", present |-> present]),
        !.r.pc = AfterBinaryStore]

\* Faulty variant: the common header comes first, before the defines.
SourceStringHeaderFirst(defines, precision, name, amd, arm, gpu, header, fragments) ==
  header
  \o defines
  \o <<Piece("define", "PRECISION", PrecisionOrdinal(precision))>>
  \o <<Piece("define", "ROUTINE_", name)>>
  \o (IF amd /\ gpu THEN <<Piece("define", "USE_CL_MAD", 1)>> ELSE <<>>)
  \o (IF amd /\ gpu THEN <<Piece("define", "USE_STAGGERED_INDICES", 1)>> ELSE <<>>)
  \o (IF arm /\ gpu THEN <<Piece("define", "GLOBAL_MEM_FENCE", 1)>> ELSE <<>>)
  \o fragments

\* Faulty variant: the device type is not looked at for the memory fence.
SourceStringFenceAnyARM(defines, precision, name, amd, arm, gpu, header, fragments) ==
  defines
  \o <<Piece("define", "PRECISION", PrecisionOrdinal(precision))>>
  \o <<Piece("define", "ROUTINE_", name)>>
  \o (IF amd /\ gpu THEN <<Piece("define", "USE_CL_MAD", 1)>> ELSE <<>>)
  \o (IF amd /\ gpu THEN <<Piece("define", "USE_STAGGERED_INDICES", 1)>> ELSE <<>>)
  \o (IF arm THEN <<Piece("define", "GLOBAL_MEM_FENCE", 1)>> ELSE <<>>)
  \o header
  \o fragments

\* The source string: the defines, then the common header, then the fragments.
SourceString(defines, precision, name, amd, arm, gpu, header, fragments) ==
  defines
  \o <<Piece("define", "PRECISION", PrecisionOrdinal(precision))>>
  \o <<Piece("define", "ROUTINE_", name)>>
  \o (IF amd /\ gpu THEN <<Piece("define", "USE_CL_MAD", 1)>> ELSE <<>>)
  \o (IF amd /\ gpu THEN <<Piece("define", "USE_STAGGERED_INDICES", 1)>> ELSE <<>>)
  \o (IF arm /\ gpu THEN <<Piece("define", "GLOBAL_MEM_FENCE", 1)>> ELSE <<>>)
  \o header
  \o fragments

Assemble(m) ==
  LET r == m.r IN
  [m EXCEPT !.r.source = SourceString(GetDefines(r.device), r.precision, r.routine_name,
                                      IsAMD(r.device), IsARM(r.device), IsGPU(r.device),
                                      CommonHeader, Fragments(r.routine_name)),
            !.r.pc = "Compile"]

\* The status code the extension check throws, "ok" when it passes.
CheckPrecision(precision, extensions) ==
  IF precision \in {"Double", "ComplexDouble"} /\ kKhronosDoublePrecision \notin extensions
  THEN "kNoDoublePrecision"
  ELSE IF precision = "Half" /\ kKhronosHalfPrecision \notin extensions
  THEN "kNoHalfPrecision"
  ELSE "ok"

\* Faulty variant: the source is assembled before the extensions are checked.
CapabilityAfterAssemble(m) ==
  LET a == Assemble(m).r
      code == CheckPrecision(a.precision, Capabilities(a.device))
      done == [a EXCEPT !.checked = TRUE]
  IN IF code = "ok" THEN [m EXCEPT !.r = [done EXCEPT !.pc = "Compile"]]
     ELSE [m EXCEPT !.r = Throw(done, code)]

\* extensions = device_.Capabilities(); the two checks throw RuntimeErrorCode
Capability(m) ==
  LET r == m.r
      code == CheckPrecision(r.precision, Capabilities(r.device))
      done == [r EXCEPT !.checked = TRUE]
  IN IF code = "ok" THEN [m EXCEPT !.r = [done EXCEPT !.pc = "Assemble"]]
     ELSE [m EXCEPT !.r = Throw(done, code)]

\* Faulty variant: the binary and the program are stored before the build.
CompileStoreFirst(m, source_result) ==
  LET r       == m.r
      program == ProgramFromSource(r.context)
      called  == [r EXCEPT !.source_builds = @ + 1]
      stored  == [m EXCEPT
                    !.binary_cache = StoreBinaryToCache(@, GetIR(program), r.device,
                                                        r.precision, r.routine_name),
                    !.program_cache = StoreProgramToCache(@, program, r.context,
                                                          r.precision, r.routine_name)]
  IN IF source_result = "ok"
     THEN [stored EXCEPT !.r = [called EXCEPT !.program = Build(program, r.device),
                                              !.pc = "StoreBinary"]]
     ELSE [stored EXCEPT !.r = Throw([called EXCEPT !.program = program], source_result)]

\* Faulty variant: a failed build is attempted again.
CompileRetry(m, source_result) ==
  LET r       == m.r
      program == ProgramFromSource(r.context)
      called  == [r EXCEPT !.source_builds = @ + 1]
  IN IF source_result = "ok"
     THEN [m EXCEPT !.r = [called EXCEPT !.program = Build(program, r.device),
                                         !.pc = "StoreBinary"]]
     ELSE IF r.source_builds = 0
     THEN [m EXCEPT !.r = [called EXCEPT !.program = program]]
     ELSE [m EXCEPT !.r = Throw([called EXCEPT !.program = program], source_result)]

\* program = Program(context_, source_string); try { program.Build(device_, options); }
\* catch (CLError) { print the build log on CL_BUILD_PROGRAM_FAILURE; throw; }
Compile(m, source_result) ==
  LET r       == m.r
      program == ProgramFromSource(r.context)
      called  == [r EXCEPT !.source_builds = @ + 1]
  IN IF source_result = "ok"
     THEN [m EXCEPT !.r = [called EXCEPT !.program = Build(program, r.device),
                                         !.pc = "StoreBinary"]]
     ELSE [m EXCEPT !.r = Throw([called EXCEPT
                                   !.program = program,
                                   !.log_printed = (source_result = "CL_BUILD_PROGRAM_FAILURE")],
                                source_result)]

\* Faulty variant: the binary is not stored.
StoreBinarySkipped(m) == [m EXCEPT !.r.pc = "StoreProgram"]

\* binary = program.GetIR(); StoreBinaryToCache(binary, device_name_, ..);
StoreBinary(m) ==
  LET r == m.r
      present == BinaryIsInCache(m.binary_cache, r.device, r.precision, r.routine_name)
  IN [m EXCEPT
        !.binary_cache =
           StoreBinaryToCache(@, GetIR(r.program), r.device, r.precision, r.routine_name),
        !.r.stores = Append(@, [cache |-> "binary", present |-> present]),
        !.r.pc = "StoreProgram"]

\* StoreProgramToCache(program, context_, precision_, routine_name_);  and return
StoreProgram(m) ==
  LET r == m.r
      present == ProgramIsInCache(m.program_cache, r.context, r.precision, r.routine_name)
      stored == [r EXCEPT !.stores = Append(@, [cache |-> "program", present |-> present])]
  IN [m EXCEPT
        !.program_cache =
           StoreProgramToCache(@, r.program, r.context, r.precision, r.routine_name),
        !.r = Return(stored)]

\* One statement of the constructor.  env, binary_ok and source_result are what
\* the environment and the OpenCL backend answer when the statement asks them.
Step(m, env, binary_ok, source_result) ==
  CASE m.r.pc = "ProgramCheck" -> ProgramCheck(m)
    [] m.r.pc = "Options"      -> Options(m, env)
    [] m.r.pc = "BinaryCheck"  -> BinaryCheck(m)
    [] m.r.pc = "BinaryBuild"  -> BinaryBuild(m, binary_ok)
    [] m.r.pc = "BinaryStore"  -> BinaryStore(m)
    [] m.r.pc = "Capability"   -> Capability(m)
    [] m.r.pc = "Assemble"     -> Assemble(m)
    [] m.r.pc = "Compile"      -> Compile(m, source_result)
    [] m.r.pc = "StoreBinary"  -> StoreBinary(m)
    [] m.r.pc = "StoreProgram" -> StoreProgram(m)

\* The whole constructor, from its first statement to its return or throw.
RECURSIVE Run(_, _, _, _)
Run(m, env, binary_ok, source_result) ==
  IF m.r.pc = "done" THEN m
  ELSE Run(Step(m, env, binary_ok, source_result), env, binary_ok, source_result)

\* ------------------------------------------------------------------ state
VARIABLES
  program_cache,         \* the process-wide program cache
  binary_cache,          \* the process-wide binary cache
  environment_variable,  \* CLBLAST_BUILD_OPTIONS: <<>> when unset
  last,                  \* the request that completed last
  prev,                  \* the request that completed before it
  before,                \* the two caches as the last request found them
  nreq,                  \* the number of requests made
  threads,               \* the constructor each thread is running, statement by statement
  assembly               \* one assembly of a source string: its inputs and its result

vars == <<program_cache, binary_cache, environment_variable, last, prev, before, nreq,
          threads, assembly>>

NoRequest == [NewRequest(0, 0, "Single", 0) EXCEPT !.pc = "none", !.status = "none"]

SourceResults == {"ok", "CL_BUILD_PROGRAM_FAILURE", "CLError"}

NoAssembly ==
  [defines |-> <<>>, precision |-> "Single", name |-> 0,
   amd |-> FALSE, arm |-> FALSE, gpu |-> FALSE,
   header |-> <<>>, fragments |-> <<>>, source |-> <<>>, done |-> FALSE]

Init ==
  /\ program_cache = {}
  /\ binary_cache = {}
  /\ environment_variable \in {<<>>, <<"-cl-fast-relaxed-math">>}
  /\ last = NoRequest
  /\ prev = NoRequest
  /\ before = [program_cache |-> {}, binary_cache |-> {}]
  /\ nreq = 0
  /\ threads = [t \in Threads |-> NoRequest]
  /\ assembly = NoAssembly

\* Routine::Routine on a queue of (ctx, dev), for routine `name` in `precision`.
Acquire(ctx, dev, precision, name, binary_ok, source_result) ==
  /\ nreq < MaxRequests
  /\ LET m == Run(Machine(NewRequest(ctx, dev, precision, name),
                          program_cache, binary_cache),
                  environment_variable, binary_ok, source_result)
     IN /\ program_cache' = m.program_cache
        /\ binary_cache' = m.binary_cache
        /\ last' = m.r
  /\ prev' = last
  /\ before' = [program_cache |-> program_cache, binary_cache |-> binary_cache]
  /\ nreq' = nreq + 1
  /\ UNCHANGED <<environment_variable, threads, assembly>>

Next ==
  \E ctx \in Contexts, dev \in Devices, precision \in Precisions, name \in Routines,
     binary_ok \in BOOLEAN, source_result \in SourceResults :
       Acquire(ctx, dev, precision, name, binary_ok, source_result)

Spec == Init /\ [][Next]_vars

\* The same requests over one more routine name and two of the precisions.
FrameRoutines   == 1 .. (NumRoutines + 1)
FramePrecisions == {"Single", "Half"}

NextFrame ==
  \E ctx \in Contexts, dev \in Devices, precision \in FramePrecisions,
     name \in FrameRoutines, binary_ok \in BOOLEAN, source_result \in SourceResults :
       Acquire(ctx, dev, precision, name, binary_ok, source_result)

SpecFrame == Init /\ [][NextFrame]_vars

\* ------------------------------------------- requests from several threads
\* A thread enters Routine::Routine on a queue of (ctx, dev).
Begin(t, ctx, dev, precision, name) ==
  /\ threads[t].pc = "none"
  /\ threads' = [threads EXCEPT ![t] = NewRequest(ctx, dev, precision, name)]
  /\ UNCHANGED <<program_cache, binary_cache, environment_variable,
                 last, prev, before, nreq, assembly>>

\* A thread executes its next statement; every cache call is atomic.
Statement(t, binary_ok, source_result) ==
  /\ threads[t].pc \notin {"none", "done"}
  /\ LET m == Step(Machine(threads[t], program_cache, binary_cache),
                   environment_variable, binary_ok, source_result)
     IN /\ program_cache' = m.program_cache
        /\ binary_cache' = m.binary_cache
        /\ threads' = [threads EXCEPT ![t] = m.r]
  /\ UNCHANGED <<environment_variable, last, prev, before, nreq, assembly>>

NextThreads ==
  \/ \E t \in Threads, ctx \in Contexts, dev \in Devices,
        precision \in Precisions, name \in Routines :
          Begin(t, ctx, dev, precision, name)
  \/ \E t \in Threads, binary_ok \in BOOLEAN, source_result \in SourceResults :
          Statement(t, binary_ok, source_result)

SpecThreads == Init /\ [][NextThreads]_vars

\* ------------------------------------------------- the source string alone
\* The source fragments a routine may pass, in any order and number.
FragmentTexts == {Piece("text", "fragment", 1), Piece("text", "fragment", 2)}
FragmentLists ==
  UNION {[1 .. n -> FragmentTexts] : n \in 0 .. MaxFragments}

\* A device is of one vendor: it is not both an AMD and an ARM device.
InitAssembly ==
  /\ program_cache = {}
  /\ binary_cache = {}
  /\ environment_variable = <<>>
  /\ last = NoRequest
  /\ prev = NoRequest
  /\ before = [program_cache |-> {}, binary_cache |-> {}]
  /\ nreq = 0
  /\ threads = [t \in Threads |-> NoRequest]
  /\ \E defines \in {<<>>, GetDefines(1)}, precision \in Precisions, name \in Routines,
        amd \in BOOLEAN, arm \in BOOLEAN, gpu \in BOOLEAN,
        fragments \in FragmentLists :
          /\ ~(amd /\ arm)
          /\ assembly = [defines |-> defines, precision |-> precision, name |-> name,
                         amd |-> amd, arm |-> arm, gpu |-> gpu,
                         header |-> CommonHeader, fragments |-> fragments,
                         source |-> <<>>, done |-> FALSE]

\* Lines 76-107 of the constructor on these inputs.
AssembleSource ==
  /\ ~assembly.done
  /\ assembly' = [assembly EXCEPT
                    !.source = SourceString(assembly.defines, assembly.precision,
                                            assembly.name, assembly.amd, assembly.arm,
                                            assembly.gpu, assembly.header,
                                            assembly.fragments),
                    !.done = TRUE]
  /\ UNCHANGED <<program_cache, binary_cache, environment_variable,
                 last, prev, before, nreq, threads>>

NextAssembly == AssembleSource

SpecAssembly == InitAssembly /\ [][NextAssembly]_vars

\* ----------------------------------------------------------- vocabulary
Completed(r) == r.pc = "done"
Succeeded(r) == r.pc = "done" /\ r.status = "ok"
SameArguments(a, b) ==
  /\ a.context = b.context /\ a.device = b.device
  /\ a.precision = b.precision /\ a.routine_name = b.routine_name
BackendCalls(r) == r.binary_builds + r.source_builds
UnsupportedPrecision == {"kNoDoublePrecision", "kNoHalfPrecision"}
BuildErrors == {"CL_BUILD_PROGRAM_FAILURE", "CLError"}
CachesUnchanged ==
  /\ program_cache = before.program_cache
  /\ binary_cache = before.binary_cache
\* The extension a precision needs, by the data model of the precisions.
LacksToken(precision, extensions) ==
  \/ precision \in {"Double", "ComplexDouble"} /\ "cl_khr_fp64" \notin extensions
  \/ precision = "Half" /\ "cl_khr_fp16" \notin extensions
\* What the last request found in the caches under its own keys.
FoundProgram ==
  ProgramIsInCache(before.program_cache, last.context, last.precision, last.routine_name)
FoundBinary ==
  BinaryIsInCache(before.binary_cache, last.device, last.precision, last.routine_name)
\* The Build of the program made from the cached binary, or from the source, failed.
BinaryBuildFailed(r) ==
  r.binary_builds = 1 /\ r.source_builds = 0 /\ r.program.origin = "binary" /\ ~r.program.built
SourceBuildFailed(r) ==
  r.source_builds = 1 /\ r.program.origin = "source" /\ ~r.program.built

\* ------------------------------------------------------------------ claims

C2_BinaryReuseOnly ==
  (/\ Succeeded(prev) /\ Completed(last)
   /\ prev.device = last.device /\ prev.context # last.context
   /\ prev.precision = last.precision /\ prev.routine_name = last.routine_name
   /\ ~FoundProgram) =>
     /\ last.binary_builds = 1
     /\ last.source_builds = 0

\* C3: no request issues a store for a key that already holds an entry, so
\* every key of either cache is written at most once.
C3_WrittenOnce ==
  /\ \A i \in DOMAIN last.stores : ~last.stores[i].present
  /\ Len(last.stores) <= 2
  /\ \A i, j \in DOMAIN last.stores :
       last.stores[i].cache = last.stores[j].cache => i = j

\* C4: the program a successful request yields (the entry the program cache
\* holds under its key) was built in the request's context for its device.
C4_ProgramForOwnDevice ==
  Succeeded(last) =>
    LET program == GetProgramFromCache(program_cache, last.context,
                                       last.precision, last.routine_name)
    IN program.built /\ program.context = last.context /\ program.device = last.device

\* C5: a request fails with the unsupported-precision error if and only if
\* the device's extensions lack the token its precision requires.
C5_UnsupportedIffLacksToken ==
  Completed(last) =>
    (last.status \in UnsupportedPrecision
       <=> LacksToken(last.precision, Capabilities(last.device)))

\* C6: a request rejected with the unsupported-precision error has assembled
\* no source, made no backend call and issued no store; both caches are as it
\* found them.
C6_RejectionDoesNothing ==
  (Completed(last) /\ last.status \in UnsupportedPrecision) =>
     /\ last.source = <<>>
     /\ BackendCalls(last) = 0
     /\ last.stores = <<>>
     /\ CachesUnchanged

C6_Witness ==
  /\ Completed(last) /\ last.status \in UnsupportedPrecision
  /\ before.binary_cache # {}
  /\ before.program_cache # {}

\* C7: when the binary is cached and the build from it fails, the request
\* fails with a build error, the binary entry is unchanged and no program is
\* stored: both caches are as the request found them.
C7_FailedBinaryBuildKeepsCaches ==
  (Completed(last) /\ FoundBinary /\ ~FoundProgram /\ BinaryBuildFailed(last)) =>
     /\ last.status \in BuildErrors
     /\ last.stores = <<>>
     /\ CachesUnchanged
     /\ BinaryIsInCache(binary_cache, last.device, last.precision, last.routine_name)
     /\ ~ProgramIsInCache(program_cache, last.context, last.precision, last.routine_name)

C7_Witness ==
  /\ Completed(last) /\ FoundBinary /\ ~FoundProgram /\ BinaryBuildFailed(last)
  /\ last.status \in BuildErrors

\* C8: a request that finds neither a program nor a binary and whose check,
\* compile and build succeed adds exactly one entry to each cache, under its
\* own keys, and changes no other entry.
C8_ColdSuccessAddsOneEach ==
  (Succeeded(last) /\ ~FoundProgram /\ ~FoundBinary) =>
     /\ \E e \in binary_cache :
          /\ e \notin before.binary_cache
          /\ binary_cache = before.binary_cache \cup {e}
          /\ e.device_name = last.device /\ e.precision = last.precision
          /\ e.routine_name = last.routine_name
     /\ \E e \in program_cache :
          /\ e \notin before.program_cache
          /\ program_cache = before.program_cache \cup {e}
          /\ e.context = last.context /\ e.precision = last.precision
          /\ e.routine_name = last.routine_name

C8_Witness ==
  /\ Succeeded(last) /\ ~FoundProgram /\ ~FoundBinary
  /\ before.binary_cache # {}
  /\ Cardinality(binary_cache) = Cardinality(before.binary_cache) + 1
  /\ Cardinality(program_cache) = Cardinality(before.program_cache) + 1

\* C9: when the compile/build of the assembled source fails on the cold path,
\* the request ends with an error and neither cache has gained an entry; and
\* no cache ever holds an entry whose build did not succeed.
C9_NoEntryForFailedStage ==
  /\ (Completed(last) /\ ~FoundProgram /\ ~FoundBinary /\ SourceBuildFailed(last)) =>
        /\ last.status \in BuildErrors
        /\ last.stores = <<>>
        /\ CachesUnchanged
  /\ \A e \in program_cache : e.program.built
  /\ \A e \in binary_cache : e.binary.valid

C9_Witness ==
  /\ Completed(last) /\ ~FoundProgram /\ ~FoundBinary /\ SourceBuildFailed(last)
  /\ last.status \in BuildErrors
  /\ program_cache # {}

\* C10: a request whose key is in the program cache succeeds at once: no
\* capability check, no build options, no backend call, no store, and both
\* caches are as it found them.
C10_ProgramHitReturnsAtOnce ==
  (Completed(last) /\ FoundProgram) =>
     /\ last.status = "ok"
     /\ last.program_hit
     /\ ~last.checked
     /\ ~last.options_set
     /\ last.source = <<>>
     /\ BackendCalls(last) = 0
     /\ last.stores = <<>>
     /\ CachesUnchanged

C10_Witness ==
  /\ Completed(last) /\ FoundProgram
  /\ last.status = "ok"
  /\ LacksToken(last.precision, Capabilities(last.device))

\* C11: a request that misses the program cache, hits the binary cache and
\* builds from the binary successfully stores the program and returns: it
\* runs no capability check, assembles no source and compiles no source.
C11_BinaryReuseIsTerminal ==
  (Completed(last) /\ ~FoundProgram /\ FoundBinary
     /\ last.binary_builds = 1 /\ last.stores # <<>>) =>
     /\ last.status = "ok"
     /\ ~last.checked
     /\ last.source = <<>>
     /\ last.source_builds = 0
     /\ last.stores = <<[cache |-> "program", present |-> FALSE]>>

\* C12: with requests running concurrently, statement by statement, a cache
\* never holds two entries under one key nor an entry that is not fully built,
\* a request that returns on a program hit found a built program, and when
\* all requests were for the same arguments and one succeeded, each of the
\* two keys holds exactly one entry at the end.
SameKeyPrograms(e, f) ==
  e.context = f.context /\ e.precision = f.precision /\ e.routine_name = f.routine_name
SameKeyBinaries(e, f) ==
  e.device_name = f.device_name /\ e.precision = f.precision
    /\ e.routine_name = f.routine_name
AllDone == \A t \in Threads : threads[t].pc = "done"

C12_FirstStoreWins ==
  /\ \A e, f \in program_cache : SameKeyPrograms(e, f) => e = f
  /\ \A e, f \in binary_cache : SameKeyBinaries(e, f) => e = f
  /\ \A e \in program_cache : e.program.built
  /\ \A e \in binary_cache : e.binary.valid
  /\ \A t \in Threads :
       threads[t].program_hit =>
         /\ ProgramIsInCache(program_cache, threads[t].context,
                             threads[t].precision, threads[t].routine_name)
         /\ GetProgramFromCache(program_cache, threads[t].context,
                                threads[t].precision, threads[t].routine_name).built
  /\ (/\ AllDone
      /\ \A t, u \in Threads : SameArguments(threads[t], threads[u])
      /\ \E t \in Threads : threads[t].status = "ok") =>
        \A t \in Threads :
          /\ Cardinality({e \in program_cache :
                 /\ e.context = threads[t].context
                 /\ e.precision = threads[t].precision
                 /\ e.routine_name = threads[t].routine_name}) = 1
          /\ Cardinality({e \in binary_cache :
                 /\ e.device_name = threads[t].device
                 /\ e.precision = threads[t].precision
                 /\ e.routine_name = threads[t].routine_name}) = 1

\* Both threads compiled the same source; the store of the second found the key taken.
C12_Witness ==
  /\ AllDone
  /\ \A t, u \in Threads : SameArguments(threads[t], threads[u])
  /\ \A t \in Threads : threads[t].status = "ok" /\ threads[t].source_builds = 1
  /\ \E t \in Threads : \E i \in DOMAIN threads[t].stores : threads[t].stores[i].present
  /\ Cardinality(program_cache) = 1
  /\ Cardinality(binary_cache) = 1

\* C13: the assembled source is, in this order, the database defines, the
\* PRECISION define with the precision's ordinal, the ROUTINE_<name> define,
\* the device-quirk defines, the common header, and the fragments in the
\* order supplied; every define comes before the header and the fragments.
QuirkDefines == {"USE_CL_MAD", "USE_STAGGERED_INDICES", "GLOBAL_MEM_FENCE"}

C13_SourceOrder ==
  assembly.done =>
    LET src == assembly.source
        nd  == Len(assembly.defines)
        nf  == Len(assembly.fragments)
        hp  == Len(src) - nf          \* where the header is
    IN /\ Len(src) >= nd + 3 + nf
       /\ SubSeq(src, 1, nd) = assembly.defines
       /\ src[nd + 1] = [kind |-> "define", name |-> "PRECISION",
                         value |-> PrecisionOrdinal(assembly.precision)]
       /\ src[nd + 2] = [kind |-> "define", name |-> "ROUTINE_", value |-> assembly.name]
       /\ \A i \in (nd + 3) .. (hp - 1) :
            src[i].kind = "define" /\ src[i].name \in QuirkDefines
       /\ <<src[hp]>> = assembly.header
       /\ SubSeq(src, hp + 1, Len(src)) = assembly.fragments
       /\ \A i \in DOMAIN src : src[i].kind = "define" => i < hp

C13_Witness ==
  /\ assembly.done
  /\ assembly.defines # <<>>
  /\ Len(assembly.fragments) = 2
  /\ assembly.fragments[1] # assembly.fragments[2]
  /\ Len(assembly.source) = 8

\* C14: the mad define and the staggered-indices define are present exactly
\* for an AMD GPU, the global-memory-fence define exactly for an ARM GPU.
HasDefine(src, name) ==
  \E i \in DOMAIN src : src[i].kind = "define" /\ src[i].name = name

C14_QuirkDefines ==
  assembly.done =>
    /\ HasDefine(assembly.source, "USE_CL_MAD") <=> (assembly.amd /\ assembly.gpu)
    /\ HasDefine(assembly.source, "USE_STAGGERED_INDICES") <=> (assembly.amd /\ assembly.gpu)
    /\ HasDefine(assembly.source, "GLOBAL_MEM_FENCE") <=> (assembly.arm /\ assembly.gpu)

\* An ARM device that is no GPU: none of the three defines.
C14_Witness ==
  /\ assembly.done
  /\ assembly.arm /\ ~assembly.gpu
  /\ \A name \in QuirkDefines : ~HasDefine(assembly.source, name)

\* C15: the step in which a Build fails ends the request with that error,
\* with no store; a request that has ended takes no further step, so it makes
\* no further backend call and no store.
C15_NoRetry ==
  [][\A t \in Threads :
       LET a == threads[t]
           b == threads'[t]
       IN /\ (BackendCalls(b) > BackendCalls(a) /\ ~b.program.built) =>
               /\ b.pc = "done"
               /\ b.status \in BuildErrors
               /\ b.stores = a.stores
               /\ program_cache' = program_cache
               /\ binary_cache' = binary_cache
          /\ (a.pc = "done" => b = a)]_vars

C15_Witness ==
  \E t \in Threads :
    /\ threads[t].pc = "done"
    /\ threads[t].status = "CL_BUILD_PROGRAM_FAILURE"
    /\ threads[t].log_printed
    /\ threads[t].source_builds = 1
    /\ ~threads[t].program.built

\* C16: no request removes or replaces an entry of either cache, and a
\* request for a key the program cache holds is a program-cache hit.
C16_CachesOnlyGrow ==
  [][/\ program_cache \subseteq program_cache'
     /\ binary_cache \subseteq binary_cache'
     /\ (nreq' = nreq + 1
           /\ ProgramIsInCache(program_cache, last'.context, last'.precision,
                               last'.routine_name)) =>
          (last'.program_hit /\ last'.status = "ok")]_vars

\* The entry of the first request outlived the second and served the third.
C16_Witness ==
  /\ nreq = 3
  /\ last.program_hit
  /\ ~prev.program_hit
  /\ (prev.context # last.context \/ prev.precision # last.precision)
  /\ \A e \in before.program_cache : e \in program_cache
  /\ \A e \in before.binary_cache : e \in binary_cache

\* C17: in every state, also while requests are in progress, the binary of
\* the device a cached program was built for is in the binary cache.
C17_ProgramImpliesBinary ==
  \A e \in program_cache :
    BinaryIsInCache(binary_cache, e.program.device, e.precision, e.routine_name)

\* A request between its two stores, next to a program cached earlier.
C17_Witness ==
  \E t \in Threads :
    /\ threads[t].pc = "StoreProgram"
    /\ BinaryIsInCache(binary_cache, threads[t].device, threads[t].precision,
                       threads[t].routine_name)
    /\ ~ProgramIsInCache(program_cache, threads[t].context, threads[t].precision,
                         threads[t].routine_name)
    /\ program_cache # {}

\* C18: after a request failed, the next request with the same arguments
\* goes through the lookup chain again and attempts the failed stage again,
\* and it fails only if that stage fails again.
C18_FailuresNotCached ==
  (/\ Completed(prev) /\ prev.status # "ok"
   /\ Completed(last) /\ SameArguments(prev, last)) =>
     /\ ~last.program_hit
     /\ last.options_set
     /\ prev.status \in UnsupportedPrecision => last.checked
     /\ BinaryBuildFailed(prev) => last.binary_builds = 1
     /\ SourceBuildFailed(prev) => last.source_builds = 1
     /\ last.status \in BuildErrors => ~last.program.built

\* C19: a request changes no entry of either cache under a key other than
\* its own two keys, and it is a hit only on an entry under its own key.
C19_OwnKeysOnly ==
  /\ before.program_cache \subseteq program_cache
  /\ before.binary_cache \subseteq binary_cache
  /\ \A e \in program_cache \ before.program_cache :
       /\ e.context = last.context /\ e.precision = last.precision
       /\ e.routine_name = last.routine_name
  /\ \A e \in binary_cache \ before.binary_cache :
       /\ e.device_name = last.device /\ e.precision = last.precision
       /\ e.routine_name = last.routine_name
  /\ last.program_hit <=> (Completed(last) /\ FoundProgram)
  /\ last.binary_hit <=> (Completed(last) /\ ~FoundProgram /\ FoundBinary)

\* The caches held the same context, device and precision under another
\* routine name, and the request still compiled its own routine.
C19_Witness ==
  /\ Succeeded(last) /\ ~last.program_hit /\ ~last.binary_hit
  /\ \E e \in before.program_cache :
       /\ e.context = last.context /\ e.precision = last.precision
       /\ e.routine_name # last.routine_name
  /\ \E e \in before.binary_cache :
       /\ e.device_name = last.device /\ e.precision = last.precision
       /\ e.routine_name # last.routine_name
  /\ \E e \in before.program_cache :
       /\ e.context = last.context /\ e.precision # last.precision
       /\ e.routine_name = last.routine_name
  /\ Cardinality(program_cache) = 3

====
